---- MODULE Spec2Model ----
(***************************************************************************)
(* QuickNavPlugin (src/src/plugins/QuickNavPlugin/QuickNavPlugin.js) as a  *)
(* state machine: the motion controller of the constructor's closures      *)
(* (startHiding, the tick handler, the delayed recovery callback), the     *)
(* crossfade overlay with its interval timer, the detail-cull selector     *)
(* (_buildCullObjects, _setObjectsCulled) and the configuration setters.   *)
(*                                                                         *)
(* JavaScript values that may be undefined are tagged records: Undef,      *)
(* Bool(b), Num(n), List(s).  Milliseconds are integers.  Overlay opacity  *)
(* is kept in thousandths, rounded up, so that the sign of the double the  *)
(* code computes is the sign of the integer.                               *)
(***************************************************************************)
EXTENDS Integers, Sequences, FiniteSets, TLC

VARIABLES
    \* closure locals of the constructor
    timer, fastMode, down,
    \* plugin fields
    _hidePBR, _hideSAO, _hideEdges,
    _hideSmallerThan, _hideMoreTrianglesThan, _hideTypesMap, _dontHideTypesMap,
    _cullSet, _cullSetLen, _cullSetDirty, _frustumDirty, _kdTreeDirty, _culling,
    _img, _pInterval, _pInterval2, _modelInfos, destroyed,
    \* the overlay element's style and the running fade's closure local
    imgVisible, imgOpacity, opacity,
    \* the host: scene effects, scene objects, cull store, timers of the event loop
    pbr, saoEnabled, edges, hostEffects,
    objects, detailCulled, viewCulled,
    intervals, timeouts,
    \* the spatial index: the KD-tree, the frustum, and what the last traversal
    \* that visited an object determined for it
    _kdRoot, _frustum, determined,
    \* history: runs of the recovery callback since the last entry into Fast mode
    recoveryRuns,
    \* history: the running fade loop was started over an active one
    fadeReplaced,
    \* history: the greatest depth _insertEntityIntoKDTree was invoked with
    insertDepth,
    \* history: the deltaTime of the ticks received in Fast mode since the most
    \* recent call of startHiding, summed
    idleTime,
    \* history: the effects startHiding disabled on the entry into Fast mode, until
    \* a recovery callback has run for that entry
    suppressed

closureVars == <<timer, fastMode, down, idleTime>>
hideVars    == <<_hidePBR, _hideSAO, _hideEdges>>
cfgVars     == <<_hideSmallerThan, _hideMoreTrianglesThan, _hideTypesMap, _dontHideTypesMap>>
cullVars    == <<_cullSet, _cullSetLen, _cullSetDirty, _culling, detailCulled, viewCulled>>
cancelVars  == <<_pInterval, _pInterval2, imgVisible, imgOpacity, opacity, intervals, timeouts,
                 fadeReplaced>>
fadeVars    == <<_img, _pInterval, _pInterval2, imgVisible, imgOpacity, opacity, intervals, timeouts,
                 fadeReplaced>>
effectVars  == <<pbr, saoEnabled, edges>>
sceneVars   == <<objects, _modelInfos, hostEffects>>
kdVars      == <<_kdRoot, _frustum, determined, insertDepth>>
vars == <<closureVars, hideVars, cfgVars, cullVars, fadeVars, effectVars, sceneVars,
          _frustumDirty, _kdTreeDirty, kdVars, destroyed, recoveryRuns, suppressed>>

----------------------------------------------------------------------------
(* Bounds of the model *)

\* most objects the scene holds at once
MaxObjects == 2
\* a tick is not delivered once the countdown is this far below zero
TimerFloor == 300

(* Program constants *)

timeoutDuration == 600
interval == 50
_fadeMillisecs == 500

----------------------------------------------------------------------------
(* JavaScript values *)

Undef   == [t |-> "undefined"]
Null    == [t |-> "null"]
Bool(b) == [t |-> "boolean", b |-> b]
Num(n)  == [t |-> "number", n |-> n]
List(s) == [t |-> "array", a |-> s]

\* truthiness, as `if (v)` and `v || []` test it
ToBoolean(v) ==
    CASE v.t = "undefined" -> FALSE
      [] v.t = "null"      -> FALSE
      [] v.t = "boolean"   -> v.b
      [] v.t = "number"    -> v.n # 0
      [] v.t = "array"     -> TRUE

Range(s) == {s[k] : k \in 1..Len(s)}
Max(a, b) == IF a >= b THEN a ELSE b

----------------------------------------------------------------------------
(* The scene's objects and the cull store *)

NoMeta == "(no metaObject)"
ObjIdx == 0..(MaxObjects - 1)
ModelIds == 1..MaxObjects

numObjects == Len(objects)
\* this._objectCullStates.objects[objectIdx]
ObjectAt(objectIdx) == objects[objectIdx + 1]

\* ObjectCullStates.setObjectDetailCulled / setObjectViewCulled over a set of indices
WithFlags(flags, idxs, culled) ==
    [i \in ObjIdx |-> IF i \in idxs THEN culled ELSE flags[i]]

----------------------------------------------------------------------------
(* Detail-cull selector *)

\* the body of _buildCullObjects' loop over the objects: whether the entity's
\* index is appended to the cull set
\* the loop body with the always-hide test before the never-hide test
NeedCullHideFirst(entity) ==
    LET hideMoreTrianglesThanEnabled == (_hideMoreTrianglesThan # 0)
        hideSmallerThanEnabled == (_hideSmallerThan # 0)
        hasMeta == entity.type # NoMeta
    IN  IF hasMeta /\ entity.type \in _hideTypesMap THEN TRUE
        ELSE IF hasMeta /\ entity.type \in _dontHideTypesMap THEN FALSE
        ELSE IF hideMoreTrianglesThanEnabled
             THEN IF hideSmallerThanEnabled
                  THEN (_hideMoreTrianglesThan <= entity.numTriangles
                            /\ entity.size <= _hideSmallerThan)
                  ELSE (_hideMoreTrianglesThan <= entity.numTriangles)
             ELSE IF hideSmallerThanEnabled
                  THEN (entity.size <= _hideSmallerThan)
                  ELSE FALSE

NeedCull(entity) ==
    LET hideMoreTrianglesThanEnabled == (_hideMoreTrianglesThan # 0)
        hideSmallerThanEnabled == (_hideSmallerThan # 0)
        hasMeta == entity.type # NoMeta
    IN  IF hasMeta /\ entity.type \in _dontHideTypesMap THEN FALSE
        ELSE IF hasMeta /\ entity.type \in _hideTypesMap THEN TRUE
        ELSE IF hideMoreTrianglesThanEnabled
             THEN IF hideSmallerThanEnabled
                  THEN (_hideMoreTrianglesThan <= entity.numTriangles
                            /\ entity.size <= _hideSmallerThan)
                  ELSE (_hideMoreTrianglesThan <= entity.numTriangles)
             ELSE IF hideSmallerThanEnabled
                  THEN (entity.size <= _hideSmallerThan)
                  ELSE FALSE

\* the object indices the rebuild appends, in index order
Selected ==
    SelectSeq([k \in 1..numObjects |-> k - 1], LAMBDA objectIdx : NeedCull(ObjectAt(objectIdx)))

\* the backing array after the rebuild: this._cullSet[this._cullSetLen++] = objectIdx
\* overwrites from position 0 and leaves what lies beyond the new length
BuiltCullSet ==
    [k \in 1..Max(Len(_cullSet), Len(Selected)) |->
        IF k <= Len(Selected) THEN Selected[k] ELSE _cullSet[k]]

\* the first loop of _buildCullObjects: setObjectViewCulled(objectIdx, false) for
\* the entries of the previous cull set
BuiltViewCulled ==
    WithFlags(viewCulled, {_cullSet[k] : k \in 1.._cullSetLen}, FALSE)

_buildCullObjects ==
    /\ viewCulled' = BuiltViewCulled
    /\ _cullSet' = BuiltCullSet
    /\ _cullSetLen' = Len(Selected)
    /\ _cullSetDirty' = FALSE

\* the indices the loop of _setObjectsCulled visits: i < this._cullSet.length
VisitedBySetObjectsCulled(cullSet) == Range(cullSet)

_setObjectsCulled(culled) ==
    /\ IF _cullSetDirty
         THEN _buildCullObjects
         ELSE UNCHANGED <<viewCulled, _cullSet, _cullSetLen, _cullSetDirty>>
    /\ detailCulled' = WithFlags(detailCulled, VisitedBySetObjectsCulled(_cullSet'), culled)
    /\ _culling' = Bool(culled)

----------------------------------------------------------------------------
(* Crossfade overlay *)

\* opacity -= inc with inc = 1 / (_fadeMillisecs / interval) = 0.1, in doubles:
\* 1, 0.9, 0.8, 0.7000000000000001, ..., 0.10000000000000014, 1.39e-16, -0.0999...
\* (thousandths, rounded up)
Decrement(o) == IF o = 800 THEN 701 ELSE o - (1000 * interval) \div _fadeMillisecs

\* clearInterval(this._pInterval); this._pInterval = null
ClearedIntervals == IF _pInterval THEN intervals - 1 ELSE intervals

\* _cancelFade without its clearing of this._pInterval2
CancelFadeKeepsRecovery ==
    IF ~_img
    THEN UNCHANGED cancelVars
    ELSE /\ _pInterval' = FALSE
         /\ intervals' = ClearedIntervals
         /\ imgOpacity' = 0
         /\ imgVisible' = FALSE
         /\ opacity' = 0
         /\ fadeReplaced' = FALSE
         /\ UNCHANGED <<_pInterval2, timeouts>>

_cancelFade ==
    IF ~_img
    THEN UNCHANGED cancelVars
    ELSE /\ _pInterval' = FALSE
         /\ intervals' = ClearedIntervals
         /\ _pInterval2' = "null"
         /\ timeouts' = IF _pInterval2 = "live" THEN timeouts - 1 ELSE timeouts
         /\ imgOpacity' = 0
         /\ imgVisible' = FALSE
         /\ opacity' = 0
         /\ fadeReplaced' = FALSE

\* _startFade without its clearing of a running interval (lines 434-437)
StartFadeKeepsInterval(snapshotOk) ==
    /\ _img' = TRUE
    /\ IF snapshotOk
         THEN /\ imgVisible' = TRUE
              /\ imgOpacity' = 1000
              /\ opacity' = 1000
              /\ _pInterval' = TRUE
              /\ intervals' = intervals + 1
              /\ fadeReplaced' = _pInterval
         ELSE /\ imgVisible' = (_img /\ imgVisible)
              /\ imgOpacity' = IF _img THEN imgOpacity ELSE 1000
              /\ UNCHANGED <<opacity, _pInterval, intervals, fadeReplaced>>

\* _startFade; snapshotOk = FALSE is viewer.getSnapshot raising, which leaves
\* the statements after line 455 undone
_startFade(snapshotOk) ==
    /\ _img' = TRUE
    /\ IF snapshotOk
         THEN /\ imgVisible' = TRUE
              /\ imgOpacity' = 1000
              /\ opacity' = 1000
              /\ _pInterval' = TRUE
              /\ intervals' = ClearedIntervals + 1
              /\ fadeReplaced' = _pInterval
         ELSE /\ imgVisible' = (_img /\ imgVisible)
              /\ imgOpacity' = IF _img THEN imgOpacity ELSE 1000
              /\ opacity' = 0
              /\ _pInterval' = FALSE
              /\ intervals' = ClearedIntervals
              /\ fadeReplaced' = FALSE

----------------------------------------------------------------------------
(* Motion controller: the constructor's closures *)

\* if (this._hideX) { effect = value; }
Toggle(hideFlag, effect, value) == IF ToBoolean(hideFlag) THEN value ELSE effect

\* the effects the three tests of startHiding assign false to
Suppression ==
    [pbr |-> ToBoolean(_hidePBR), sao |-> ToBoolean(_hideSAO), edges |-> ToBoolean(_hideEdges)]
NoneSuppressed == [pbr |-> FALSE, sao |-> FALSE, edges |-> FALSE]

\* startHiding with the countdown reset on the entry into Fast mode only
StartHidingResetsOnEntry ==
    /\ idleTime' = 0
    /\ IF ~fastMode
         THEN /\ timer' = timeoutDuration
              /\ _cancelFade
              /\ UNCHANGED _img
              /\ pbr' = Toggle(_hidePBR, pbr, FALSE)
              /\ saoEnabled' = Toggle(_hideSAO, saoEnabled, FALSE)
              /\ edges' = Toggle(_hideEdges, edges, FALSE)
              /\ _setObjectsCulled(TRUE)
              /\ fastMode' = TRUE
              /\ recoveryRuns' = 0
              /\ suppressed' = Suppression
         ELSE UNCHANGED <<timer, fadeVars, effectVars, cullVars, fastMode, recoveryRuns, suppressed>>
    /\ _frustumDirty' = TRUE
    /\ UNCHANGED <<down, hideVars, cfgVars, sceneVars, _kdTreeDirty, kdVars, destroyed>>

\* startHiding without its call of _cancelFade
StartHidingNoCancel ==
    /\ timer' = timeoutDuration
    /\ idleTime' = 0
    /\ IF ~fastMode
         THEN /\ UNCHANGED fadeVars
              /\ pbr' = Toggle(_hidePBR, pbr, FALSE)
              /\ saoEnabled' = Toggle(_hideSAO, saoEnabled, FALSE)
              /\ edges' = Toggle(_hideEdges, edges, FALSE)
              /\ _setObjectsCulled(TRUE)
              /\ fastMode' = TRUE
              /\ recoveryRuns' = 0
              /\ suppressed' = Suppression
         ELSE UNCHANGED <<fadeVars, effectVars, cullVars, fastMode, recoveryRuns, suppressed>>
    /\ _frustumDirty' = TRUE
    /\ UNCHANGED <<down, hideVars, cfgVars, sceneVars, _kdTreeDirty, kdVars, destroyed>>

startHiding ==
    /\ timer' = timeoutDuration
    /\ idleTime' = 0
    /\ IF ~fastMode
         THEN /\ _cancelFade
              /\ UNCHANGED _img
              /\ pbr' = Toggle(_hidePBR, pbr, FALSE)
              /\ saoEnabled' = Toggle(_hideSAO, saoEnabled, FALSE)
              /\ edges' = Toggle(_hideEdges, edges, FALSE)
              /\ _setObjectsCulled(TRUE)
              /\ fastMode' = TRUE
              /\ recoveryRuns' = 0
              /\ suppressed' = Suppression
         ELSE UNCHANGED <<fadeVars, effectVars, cullVars, fastMode, recoveryRuns, suppressed>>
    /\ _frustumDirty' = TRUE
    /\ UNCHANGED <<down, hideVars, cfgVars, sceneVars, _kdTreeDirty, kdVars, destroyed>>

\* canvas "boundary", camera "viewMatrix" and camera "projMatrix" all call startHiding
CanvasBoundary == ~destroyed /\ startHiding
ViewMatrix     == ~destroyed /\ startHiding
ProjMatrix     == ~destroyed /\ startHiding

MouseDown ==
    /\ ~destroyed
    /\ down' = TRUE
    /\ UNCHANGED <<timer, fastMode, idleTime, hideVars, cfgVars, cullVars, fadeVars, effectVars,
                   sceneVars, _frustumDirty, _kdTreeDirty, kdVars, destroyed, recoveryRuns, suppressed>>

MouseUp ==
    /\ ~destroyed
    /\ down' = FALSE
    /\ UNCHANGED <<timer, fastMode, idleTime, hideVars, cfgVars, cullVars, fadeVars, effectVars,
                   sceneVars, _frustumDirty, _kdTreeDirty, kdVars, destroyed, recoveryRuns, suppressed>>

\* the mousemove handler without its test of `down`
MouseMoveIgnoresDown ==
    /\ ~destroyed
    /\ startHiding

MouseMove ==
    /\ ~destroyed
    /\ IF ~down THEN UNCHANGED vars ELSE startHiding

\* the tick handler with the body of the recovery callback run in the handler
\* itself, in place of the setTimeout
TickRecoversAtOnce(deltaTime, snapshotOk) ==
    /\ ~destroyed
    /\ timer > -TimerFloor
    /\ IF ~fastMode
         THEN UNCHANGED vars
         ELSE /\ timer' = timer - deltaTime
              /\ idleTime' = idleTime + deltaTime
              /\ IF timer - deltaTime <= 0
                   THEN /\ _startFade(snapshotOk)
                        /\ IF snapshotOk
                             THEN /\ pbr' = Toggle(_hidePBR, pbr, TRUE)
                                  /\ saoEnabled' = Toggle(_hideSAO, saoEnabled, TRUE)
                                  /\ edges' = Toggle(_hideEdges, edges, TRUE)
                                  /\ _setObjectsCulled(FALSE)
                                  /\ recoveryRuns' = recoveryRuns + 1
                                  /\ suppressed' = NoneSuppressed
                                  /\ fastMode' = FALSE
                             ELSE UNCHANGED <<effectVars, cullVars, recoveryRuns, suppressed,
                                              fastMode>>
                        /\ UNCHANGED <<_pInterval2, timeouts>>
                   ELSE UNCHANGED <<fadeVars, effectVars, cullVars, recoveryRuns, suppressed,
                                    fastMode>>
              /\ UNCHANGED <<down, hideVars, cfgVars, sceneVars, _frustumDirty, _kdTreeDirty,
                             kdVars, destroyed>>

\* the tick handler without its closing fastMode = false
TickStaysFast(deltaTime, snapshotOk) ==
    /\ ~destroyed
    /\ timer > -TimerFloor
    /\ IF ~fastMode
         THEN UNCHANGED vars
         ELSE /\ timer' = timer - deltaTime
              /\ idleTime' = idleTime + deltaTime
              /\ IF timer - deltaTime <= 0
                   THEN /\ _startFade(snapshotOk)
                        /\ IF snapshotOk
                             THEN /\ _pInterval2' = "live"
                                  /\ timeouts' = timeouts + 1
                             ELSE UNCHANGED <<_pInterval2, timeouts>>
                   ELSE UNCHANGED fadeVars
              /\ UNCHANGED <<fastMode, down, hideVars, cfgVars, cullVars, effectVars, sceneVars,
                             _frustumDirty, _kdTreeDirty, kdVars, destroyed, recoveryRuns,
                             suppressed>>

\* the scene's "tick" handler; a raising _startFade leaves the handler before
\* the timeout is set and before fastMode is cleared
Tick(deltaTime, snapshotOk) ==
    /\ ~destroyed
    /\ timer > -TimerFloor
    /\ IF ~fastMode
         THEN UNCHANGED vars
         ELSE /\ timer' = timer - deltaTime
              /\ idleTime' = idleTime + deltaTime
              /\ IF timer - deltaTime <= 0
                   THEN /\ _startFade(snapshotOk)
                        /\ IF snapshotOk
                             THEN /\ _pInterval2' = "live"
                                  /\ timeouts' = timeouts + 1
                                  /\ fastMode' = FALSE
                             ELSE UNCHANGED <<_pInterval2, timeouts, fastMode>>
                   ELSE UNCHANGED <<fadeVars, fastMode>>
              /\ UNCHANGED <<down, hideVars, cfgVars, cullVars, effectVars, sceneVars,
                             _frustumDirty, _kdTreeDirty, kdVars, destroyed, recoveryRuns, suppressed>>

\* the callback of setTimeout(..., 100) set by the tick handler
RecoveryTimeout ==
    /\ timeouts > 0
    /\ timeouts' = timeouts - 1
    /\ _pInterval2' = IF _pInterval2 = "live" /\ timeouts = 1 THEN "fired" ELSE _pInterval2
    /\ pbr' = Toggle(_hidePBR, pbr, TRUE)
    /\ saoEnabled' = Toggle(_hideSAO, saoEnabled, TRUE)
    /\ edges' = Toggle(_hideEdges, edges, TRUE)
    /\ _setObjectsCulled(FALSE)
    /\ recoveryRuns' = recoveryRuns + 1
    /\ suppressed' = NoneSuppressed
    /\ UNCHANGED <<closureVars, hideVars, cfgVars, sceneVars, _frustumDirty, _kdTreeDirty, kdVars,
                   destroyed, _img, _pInterval, imgVisible, imgOpacity, opacity, intervals,
                   fadeReplaced>>

\* the setInterval callback without the clearInterval of its last run
FadeStepKeepsInterval ==
    /\ intervals > 0
    /\ IF Decrement(opacity) > 0
         THEN /\ opacity' = Decrement(opacity)
              /\ imgOpacity' = Decrement(opacity)
              /\ UNCHANGED <<imgVisible, _pInterval, intervals, fadeReplaced>>
         ELSE /\ imgOpacity' = 0
              /\ imgVisible' = FALSE
              /\ opacity' = 0
              /\ UNCHANGED <<_pInterval, intervals, fadeReplaced>>
    /\ UNCHANGED <<closureVars, hideVars, cfgVars, cullVars, effectVars, sceneVars,
                   _frustumDirty, _kdTreeDirty, kdVars, destroyed, recoveryRuns, suppressed,
                   _img, _pInterval2, timeouts>>

\* one run of the setInterval callback of _startFade
FadeStep ==
    /\ intervals > 0
    /\ IF Decrement(opacity) > 0
         THEN /\ opacity' = Decrement(opacity)
              /\ imgOpacity' = Decrement(opacity)
              /\ UNCHANGED <<imgVisible, _pInterval, intervals, fadeReplaced>>
         ELSE /\ imgOpacity' = 0
              /\ imgVisible' = FALSE
              /\ intervals' = ClearedIntervals
              /\ _pInterval' = FALSE
              /\ opacity' = 0
              /\ fadeReplaced' = FALSE
    /\ UNCHANGED <<closureVars, hideVars, cfgVars, cullVars, effectVars, sceneVars,
                   _frustumDirty, _kdTreeDirty, kdVars, destroyed, recoveryRuns, suppressed,
                   _img, _pInterval2, timeouts>>

----------------------------------------------------------------------------
(* Configuration setters *)

\* (value !== undefined && value !== null) ? value : 0
OrZero(value) == IF value.t # "undefined" /\ value.t # "null" THEN value.n ELSE 0
\* the map built from (list || [])
TypesMap(list) == IF ToBoolean(list) THEN Range(list.a) ELSE {}

SetHidePBR(value) ==
    /\ ~destroyed
    /\ _hidePBR' = value
    /\ UNCHANGED <<closureVars, _hideSAO, _hideEdges, cfgVars, cullVars, fadeVars, effectVars,
                   sceneVars, _frustumDirty, _kdTreeDirty, kdVars, destroyed, recoveryRuns, suppressed>>

SetHideSAO(value) ==
    /\ ~destroyed
    /\ _hideSAO' = value
    /\ UNCHANGED <<closureVars, _hidePBR, _hideEdges, cfgVars, cullVars, fadeVars, effectVars,
                   sceneVars, _frustumDirty, _kdTreeDirty, kdVars, destroyed, recoveryRuns, suppressed>>

SetHideEdges(value) ==
    /\ ~destroyed
    /\ _hideEdges' = value
    /\ UNCHANGED <<closureVars, _hidePBR, _hideSAO, cfgVars, cullVars, fadeVars, effectVars,
                   sceneVars, _frustumDirty, _kdTreeDirty, kdVars, destroyed, recoveryRuns, suppressed>>

SetHideSmallerThan(value) ==
    /\ ~destroyed
    /\ _hideSmallerThan' = OrZero(value)
    /\ _cullSetDirty' = TRUE
    /\ UNCHANGED <<closureVars, hideVars, _hideMoreTrianglesThan, _hideTypesMap,
                   _dontHideTypesMap, _cullSet, _cullSetLen, _culling, detailCulled,
                   viewCulled, fadeVars, effectVars, sceneVars, _frustumDirty, _kdTreeDirty, kdVars,
                   destroyed, recoveryRuns, suppressed>>

SetHideMoreTrianglesThan(value) ==
    /\ ~destroyed
    /\ _hideMoreTrianglesThan' = OrZero(value)
    /\ _cullSetDirty' = TRUE
    /\ UNCHANGED <<closureVars, hideVars, _hideSmallerThan, _hideTypesMap,
                   _dontHideTypesMap, _cullSet, _cullSetLen, _culling, detailCulled,
                   viewCulled, fadeVars, effectVars, sceneVars, _frustumDirty, _kdTreeDirty, kdVars,
                   destroyed, recoveryRuns, suppressed>>

SetHideTypes(hideTypes) ==
    /\ ~destroyed
    /\ _hideTypesMap' = TypesMap(hideTypes)
    /\ _cullSetDirty' = TRUE
    /\ UNCHANGED <<closureVars, hideVars, _hideSmallerThan, _hideMoreTrianglesThan,
                   _dontHideTypesMap, _cullSet, _cullSetLen, _culling, detailCulled,
                   viewCulled, fadeVars, effectVars, sceneVars, _frustumDirty, _kdTreeDirty, kdVars,
                   destroyed, recoveryRuns, suppressed>>

SetDontHideTypes(dontHideTypes) ==
    /\ ~destroyed
    /\ _dontHideTypesMap' = TypesMap(dontHideTypes)
    /\ _cullSetDirty' = TRUE
    /\ UNCHANGED <<closureVars, hideVars, _hideSmallerThan, _hideMoreTrianglesThan,
                   _hideTypesMap, _cullSet, _cullSetLen, _culling, detailCulled,
                   viewCulled, fadeVars, effectVars, sceneVars, _frustumDirty, _kdTreeDirty, kdVars,
                   destroyed, recoveryRuns, suppressed>>

----------------------------------------------------------------------------
(* Models of the scene *)

LoadedModels == {objects[k].model : k \in 1..numObjects}

\* the plugin's "modelLoaded" handler (_addModel); the store lists the model's
\* object after the objects it already holds
ModelLoaded(entity) ==
    /\ ~destroyed
    /\ numObjects < MaxObjects
    /\ entity.model \notin LoadedModels
    /\ \A m \in ModelIds \ LoadedModels : entity.model <= m
    /\ objects' = Append(objects, entity)
    /\ _modelInfos' = _modelInfos \cup {entity.model}
    /\ _cullSetDirty' = TRUE
    /\ _kdTreeDirty' = TRUE
    /\ UNCHANGED <<closureVars, hideVars, cfgVars, _cullSet, _cullSetLen, _culling,
                   detailCulled, viewCulled, fadeVars, effectVars, hostEffects,
                   _frustumDirty, kdVars, destroyed, recoveryRuns, suppressed>>

\* a model is destroyed: the store drops its object; _removeModel runs for a
\* model the plugin has subscribed to
ModelDestroyed(model) ==
    /\ ~destroyed
    /\ model \in LoadedModels
    /\ objects' = SelectSeq(objects, LAMBDA entity : entity.model # model)
    /\ IF model \in _modelInfos
         THEN /\ _modelInfos' = _modelInfos \ {model}
              /\ _cullSetDirty' = TRUE
              /\ _kdTreeDirty' = TRUE
         ELSE UNCHANGED <<_modelInfos, _cullSetDirty, _kdTreeDirty>>
    /\ UNCHANGED <<closureVars, hideVars, cfgVars, _cullSet, _cullSetLen, _culling,
                   detailCulled, viewCulled, fadeVars, effectVars, hostEffects,
                   _frustumDirty, kdVars, destroyed, recoveryRuns, suppressed>>

\* another culling system of the scene writes an object's viewCulled flag
OtherSystemViewCulls(objectIdx, culled) ==
    /\ ~destroyed
    /\ objectIdx < numObjects
    /\ viewCulled' = WithFlags(viewCulled, {objectIdx}, culled)
    /\ UNCHANGED <<closureVars, hideVars, cfgVars, _cullSet, _cullSetLen, _cullSetDirty,
                   _culling, detailCulled, fadeVars, effectVars, sceneVars, _frustumDirty,
                   _kdTreeDirty, kdVars, destroyed, recoveryRuns, suppressed>>

----------------------------------------------------------------------------
(* Commands *)

\* send("clear")
SendClear ==
    /\ ~destroyed
    /\ _cancelFade
    /\ UNCHANGED <<_img, closureVars, hideVars, cfgVars, cullVars, effectVars, sceneVars,
                   _frustumDirty, _kdTreeDirty, kdVars, destroyed, recoveryRuns, suppressed>>

\* destroy() without its opening call of _cancelFade
DestroyKeepsTimers ==
    /\ ~destroyed
    /\ UNCHANGED cancelVars
    /\ _img' = FALSE
    /\ detailCulled' = WithFlags(detailCulled, {_cullSet[k] : k \in 1.._cullSetLen}, FALSE)
    /\ _modelInfos' = {}
    /\ _cullSet' = <<>>
    /\ _cullSetLen' = 0
    /\ destroyed' = TRUE
    /\ UNCHANGED <<closureVars, hideVars, cfgVars, _cullSetDirty, _culling, viewCulled,
                   effectVars, objects, hostEffects, _frustumDirty, _kdTreeDirty, kdVars,
                   recoveryRuns, suppressed>>

\* destroy(): _cancelFade, the subscriptions released, detailCulled cleared for
\* the first _cullSetLen entries of the cull set, the overlay removed
Destroy ==
    /\ ~destroyed
    /\ _cancelFade
    /\ _img' = FALSE
    /\ detailCulled' = WithFlags(detailCulled, {_cullSet[k] : k \in 1.._cullSetLen}, FALSE)
    /\ _modelInfos' = {}
    /\ _cullSet' = <<>>
    /\ _cullSetLen' = 0
    /\ destroyed' = TRUE
    /\ UNCHANGED <<closureVars, hideVars, cfgVars, _cullSetDirty, _culling, viewCulled,
                   effectVars, objects, hostEffects, _frustumDirty, _kdTreeDirty, kdVars, recoveryRuns, suppressed>>

----------------------------------------------------------------------------
(* Spatial index: the KD-tree and its traversal *)

\* MAX_KD_TREE_DEPTH
_maxTreeDepth == 8

\* Frustum.INSIDE, Frustum.INTERSECT, Frustum.OUTSIDE
INSIDE == "INSIDE"
INTERSECT == "INTERSECT"
OUTSIDE == "OUTSIDE"

Min(a, b) == IF a <= b THEN a ELSE b

\* boxes are <<xmin, ymin, zmin, xmax, ymax, zmax>>
\* math.containsAABB3(aabb1, aabb2): aabb1 contains aabb2
containsAABB3(aabb1, aabb2) ==
    \A d \in 1..3 : aabb1[d] <= aabb2[d] /\ aabb2[d + 3] <= aabb1[d + 3]

\* math.expandAABB3(aabb1, aabb2): aabb1 grown to include aabb2
expandAABB3(aabb1, aabb2) ==
    [k \in 1..6 |-> IF k <= 3 THEN Min(aabb1[k], aabb2[k]) ELSE Max(aabb1[k], aabb2[k])]

\* math.collapseAABB3: the box that contains nothing
CollapsedAABB3 ==
    LET far == 2 ^ (2 * _maxTreeDepth) IN <<far, far, far, -far, -far, -far>>

RECURSIVE UnionAABB3(_)
UnionAABB3(k) ==
    IF k = 0 THEN CollapsedAABB3 ELSE expandAABB3(UnionAABB3(k - 1), ObjectAt(k - 1).aabb)

\* scene.getAABB(): the boundary of the scene's objects
SceneAABB == UnionAABB3(numObjects)

\* frustumIntersectsAABB3 for a frustum whose planes are axis-aligned (an
\* orthographic view along an axis), kept as the box the planes enclose
frustumIntersectsAABB3(frustum, aabb) ==
    IF \E d \in 1..3 : aabb[d + 3] < frustum[d] \/ frustum[d + 3] < aabb[d]
    THEN OUTSIDE
    ELSE IF containsAABB3(frustum, aabb) THEN INSIDE ELSE INTERSECT

\* a tree is a function from the paths of its nodes to the nodes; the root's
\* path is <<>>, kdNode.left is the node at Append(path, "left")
NoTree == <<>>
Left(path) == Append(path, "left")
Right(path) == Append(path, "right")

\* kdNode.left = node / kdNode.right = node: the tree with node at the path child
WithChild(tree, child, node) ==
    [p \in DOMAIN tree \cup {child} |-> IF p = child THEN node ELSE tree[p]]

\* { aabb: ..., intersection: Frustum.INTERSECT }: the object literal sets no
\* `intersects` and no `objects`
NewKDNode(aabb) ==
    [aabb |-> aabb, intersection |-> INTERSECT, intersects |-> "undefined", objects |-> <<>>]

\* the longest axis of the node's box, the lower axis on a tie
SplitDim(nodeAABB) ==
    LET len == [d \in 1..3 |-> nodeAABB[d + 3] - nodeAABB[d]]
        dim1 == IF len[2] > len[1] THEN 2 ELSE 1
    IN  IF len[3] > len[dim1] THEN 3 ELSE dim1

AabbLeft(nodeAABB) ==
    LET dim == SplitDim(nodeAABB)
    IN  [nodeAABB EXCEPT ![dim + 3] = (nodeAABB[dim] + nodeAABB[dim + 3]) \div 2]

AabbRight(nodeAABB) ==
    LET dim == SplitDim(nodeAABB)
    IN  [nodeAABB EXCEPT ![dim] = (nodeAABB[dim] + nodeAABB[dim + 3]) \div 2]

\* the test of an existing child with overlap in place of containment
ChildOverlaps(tree, child, entityAABB) ==
    \A d \in 1..3 : tree[child].aabb[d] <= entityAABB[d + 3]
                        /\ entityAABB[d] <= tree[child].aabb[d + 3]

\* math.containsAABB3(kdNode.left.aabb, entityAABB), and the same of kdNode.right
ChildContains(tree, child, entityAABB) == containsAABB3(tree[child].aabb, entityAABB)

\* the depth test one level late
BeyondMaxTreeDepth(depth) == depth > _maxTreeDepth

\* if (depth >= this._maxTreeDepth)
AtMaxTreeDepth(depth) == depth >= _maxTreeDepth

\* kdNode.objects.push(objectIdx); math.expandAABB3(kdNode.aabb, entityAABB)
StoredInKDNode(tree, path, objectIdx, entityAABB) ==
    [tree EXCEPT ![path] = [@ EXCEPT !.objects = Append(@, objectIdx),
                                     !.aabb = expandAABB3(@, entityAABB)]]

\* the tree after the call, and the greatest depth the call and the calls it
\* made were invoked with
RECURSIVE _insertEntityIntoKDTree(_, _, _, _, _)
_insertEntityIntoKDTree(tree, path, entity, objectIdx, depth) ==
    LET entityAABB == entity.aabb
        nodeAABB == tree[path].aabb
        hasLeft == Left(path) \in DOMAIN tree
        hasRight == Right(path) \in DOMAIN tree
        withLeft == IF hasLeft THEN tree
                   ELSE WithChild(tree, Left(path), NewKDNode(AabbLeft(nodeAABB)))
        withRight == IF hasRight THEN withLeft
                     ELSE WithChild(withLeft, Right(path), NewKDNode(AabbRight(nodeAABB)))
    IN  IF AtMaxTreeDepth(depth)
        THEN [tree |-> StoredInKDNode(tree, path, objectIdx, entityAABB), depth |-> depth]
        ELSE IF hasLeft /\ ChildContains(tree, Left(path), entityAABB)
        THEN _insertEntityIntoKDTree(tree, Left(path), entity, objectIdx, depth + 1)
        ELSE IF hasRight /\ ChildContains(tree, Right(path), entityAABB)
        THEN _insertEntityIntoKDTree(tree, Right(path), entity, objectIdx, depth + 1)
        ELSE IF ~hasLeft /\ containsAABB3(AabbLeft(nodeAABB), entityAABB)
        THEN _insertEntityIntoKDTree(withLeft, Left(path), entity, objectIdx, depth + 1)
        ELSE IF ~hasRight /\ containsAABB3(AabbRight(nodeAABB), entityAABB)
        THEN _insertEntityIntoKDTree(withRight, Right(path), entity, objectIdx, depth + 1)
        ELSE [tree |-> StoredInKDNode(withRight, path, objectIdx, entityAABB), depth |-> depth]

\* a build that goes on from the tree it finds
KeptKDRoot == IF DOMAIN _kdRoot = {} THEN [p \in {<<>>} |-> NewKDNode(SceneAABB)] ELSE _kdRoot

\* this._kdRoot = { aabb: scene.getAABB(), intersection: Frustum.INTERSECT }
NewKDRoot == [p \in {<<>>} |-> NewKDNode(SceneAABB)]

\* the loop of _buildKDTree over the first k objects
RECURSIVE KDTreeOf(_)
KDTreeOf(k) ==
    IF k = 0 THEN [tree |-> NewKDRoot, depth |-> 0]
    ELSE LET before == KDTreeOf(k - 1)
             after == _insertEntityIntoKDTree(before.tree, <<>>, ObjectAt(k - 1), k - 1, 1)
         IN  [tree |-> after.tree, depth |-> Max(before.depth, after.depth)]

_buildKDTree ==
    /\ _kdRoot' = KDTreeOf(numObjects).tree
    /\ insertDepth' = KDTreeOf(numObjects).depth
    /\ _kdTreeDirty' = FALSE

\* the tree with the classifications the visit cached, and for each object the
\* value of `intersects` in the loop over the objects of its node
RECURSIVE _visitKDNode(_, _, _)
_visitKDNode(visit, path, intersects) ==
    LET kdNode == visit.tree[path]
        own == IF intersects = INTERSECT
               THEN frustumIntersectsAABB3(_frustum, kdNode.aabb)
               ELSE intersects
        here == [tree |-> IF intersects = INTERSECT
                          THEN [visit.tree EXCEPT ![path].intersects = own]
                          ELSE visit.tree,
                 determined |-> [i \in ObjIdx |->
                                    IF i \in Range(kdNode.objects) THEN own
                                    ELSE visit.determined[i]]]
        afterLeft == IF Left(path) \in DOMAIN visit.tree
                     THEN _visitKDNode(here, Left(path), own) ELSE here
    IN  IF intersects # INTERSECT /\ kdNode.intersects = intersects
        THEN visit
        ELSE IF Right(path) \in DOMAIN visit.tree
             THEN _visitKDNode(afterLeft, Right(path), own) ELSE afterLeft

\* _getObjectsInFrustum with the camera looking at frustum
GetObjectsInFrustum(frustum) ==
    /\ ~destroyed
    /\ IF _frustumDirty
         THEN _frustum' = frustum /\ _frustumDirty' = FALSE
         ELSE UNCHANGED <<_frustum, _frustumDirty>>
    /\ IF _kdTreeDirty
         THEN _buildKDTree
         ELSE UNCHANGED <<_kdRoot, insertDepth, _kdTreeDirty>>
    /\ UNCHANGED <<closureVars, hideVars, cfgVars, cullVars, fadeVars, effectVars, sceneVars,
                   determined, destroyed, recoveryRuns, suppressed>>

\* this._visitKDNode(this._kdRoot), the call _getObjectsInFrustum holds in a comment
VisitKDNode ==
    /\ ~destroyed
    /\ DOMAIN _kdRoot # {}
    /\ LET visit == _visitKDNode([tree |-> _kdRoot, determined |-> determined], <<>>, INTERSECT)
       IN  /\ _kdRoot' = visit.tree
           /\ determined' = visit.determined
    /\ UNCHANGED <<closureVars, hideVars, cfgVars, cullVars, fadeVars, effectVars, sceneVars,
                   _frustum, insertDepth, _frustumDirty, _kdTreeDirty, destroyed, recoveryRuns, suppressed>>

\* the fields of the spatial index after construction: this._frustum = new
\* Frustum(), this._kdRoot = null
NoSpatialIndex ==
    /\ _kdRoot = NoTree
    /\ _frustum = CollapsedAABB3
    /\ determined = [i \in ObjIdx |-> "undefined"]
    /\ insertDepth = 0

----------------------------------------------------------------------------
(* The state after construction *)

Entity(model, numTriangles, size, type) ==
    [model |-> model, numTriangles |-> numTriangles, size |-> size, type |-> type]

\* the constructor with configuration cfg, a host that has set the scene's
\* effects to host, and a scene that already holds the objects of scene
Constructed(cfg, host, scene) ==
    /\ timer = timeoutDuration
    /\ fastMode = FALSE
    /\ down = FALSE
    /\ idleTime = 0
    /\ _hidePBR = cfg.hidePBR
    /\ _hideSAO = cfg.hideSAO
    /\ _hideEdges = cfg.hideEdges
    /\ _hideSmallerThan = OrZero(cfg.hideSmallerThan)
    /\ _hideMoreTrianglesThan = OrZero(cfg.hideMoreTrianglesThan)
    /\ _hideTypesMap = TypesMap(cfg.hideTypes)
    /\ _dontHideTypesMap = TypesMap(cfg.dontHideTypes)
    /\ _cullSet = <<>>
    /\ _cullSetLen = 0
    /\ _cullSetDirty = TRUE
    /\ _frustumDirty = FALSE
    /\ _kdTreeDirty = FALSE
    /\ _culling = Undef
    /\ _img = FALSE
    /\ _pInterval = FALSE
    /\ _pInterval2 = "null"
    /\ _modelInfos = {}
    /\ destroyed = FALSE
    /\ imgVisible = FALSE
    /\ imgOpacity = 0
    /\ opacity = 0
    /\ hostEffects = host
    /\ pbr = host.pbr
    /\ saoEnabled = host.sao
    /\ edges = host.edges
    /\ objects = scene
    /\ detailCulled = [i \in ObjIdx |-> FALSE]
    /\ viewCulled = [i \in ObjIdx |-> FALSE]
    /\ intervals = 0
    /\ timeouts = 0
    /\ recoveryRuns = 0
    /\ suppressed = NoneSuppressed
    /\ fadeReplaced = FALSE
    /\ NoSpatialIndex

Configs(hideValues, thresholds, typeLists) ==
    [hidePBR : hideValues, hideSAO : hideValues, hideEdges : hideValues,
     hideSmallerThan : thresholds, hideMoreTrianglesThan : thresholds,
     hideTypes : typeLists, dontHideTypes : typeLists]

\* a host that has enabled every effect, as in the class comment's usage example
AllEffectsOn == [pbr |-> TRUE, sao |-> TRUE, edges |-> TRUE]

----------------------------------------------------------------------------
(* Spec: the motion controller, the effects and the overlay, over a scene   *)
(* of two objects of which the configured triangle threshold selects one   *)

HideValues == {Undef, Bool(TRUE), Bool(FALSE)}
AllEffectsOff == [pbr |-> FALSE, sao |-> FALSE, edges |-> FALSE]
Hosts == {AllEffectsOn, AllEffectsOff}
TickDeltas == {300, 600}
\* a triangle-heavy object and a light one, both without metadata
TwoObjects == <<Entity(1, 2, 2, NoMeta), Entity(2, 1, 1, NoMeta)>>

Init ==
    \E cfg \in Configs(HideValues, {Num(2)}, {Undef}), host \in Hosts :
        Constructed(cfg, host, TwoObjects)

Next ==
    \/ CanvasBoundary
    \/ ViewMatrix
    \/ ProjMatrix
    \/ MouseDown
    \/ MouseUp
    \/ MouseMove
    \/ \E deltaTime \in TickDeltas, snapshotOk \in BOOLEAN : Tick(deltaTime, snapshotOk)
    \/ RecoveryTimeout
    \/ FadeStep
    \/ \E value \in HideValues : SetHidePBR(value)
    \/ \E value \in HideValues : SetHideSAO(value)
    \/ \E value \in HideValues : SetHideEdges(value)
    \/ SendClear
    \/ Destroy

Spec == Init /\ [][Next]_vars

----------------------------------------------------------------------------
(* Properties of the motion controller *)

\* a motion trigger: a handler call that runs startHiding
MotionTrigger == CanvasBoundary \/ ViewMatrix \/ ProjMatrix \/ (down /\ MouseMove)

\* the effects whose hide flag is set are disabled / enabled
FlaggedEffectsDisabled ==
    /\ ToBoolean(_hidePBR) => ~pbr
    /\ ToBoolean(_hideSAO) => ~saoEnabled
    /\ ToBoolean(_hideEdges) => ~edges
FlaggedEffectsEnabled ==
    /\ ToBoolean(_hidePBR) => pbr
    /\ ToBoolean(_hideSAO) => saoEnabled
    /\ ToBoolean(_hideEdges) => edges

\* the objects of the cull set: its first _cullSetLen entries
CullSetObjects == {_cullSet[k] : k \in 1.._cullSetLen}

\* C2: between two entries into Fast mode the delayed recovery callback runs
\* at most once, and the event loop never holds more than one recovery timeout.
C2_RecoveryAtMostOnce == recoveryRuns <= 1 /\ timeouts <= 1

\* a recovery ran after an entry into Fast mode and none is pending
C2_Witness == ~fastMode /\ recoveryRuns = 1 /\ timeouts = 0 /\ _pInterval2 = "fired"

\* C3: a motion trigger received outside Fast mode leaves, in the same handler
\* call, the flagged effects disabled, the cull set's objects detail-culled, the
\* countdown at 600 ms, the frustum dirty and the plugin in Fast mode; a
\* mousemove without a button down changes nothing.
C3_SynchronousFast ==
    [][ /\ (MotionTrigger /\ ~fastMode) =>
              /\ FlaggedEffectsDisabled'
              /\ \A objectIdx \in CullSetObjects' : detailCulled'[objectIdx]
              /\ timer' = 600
              /\ _frustumDirty'
              /\ fastMode'
        /\ (MouseMove /\ ~down) => UNCHANGED vars ]_vars

\* Fast mode entered by a trigger: an effect the host had enabled is now
\* disabled by its flag and an object is detail-culled
C3_Witness ==
    /\ fastMode /\ timer = 600 /\ _frustumDirty
    /\ ToBoolean(_hidePBR) /\ hostEffects.pbr /\ ~pbr
    /\ \E objectIdx \in CullSetObjects : detailCulled[objectIdx]

\* C4: a motion trigger that arrives while a recovery timeout is pending or a
\* fade loop runs leaves no recovery timeout and no fade interval in the event
\* loop, so the interrupted recovery cannot run, and leaves the plugin in Fast
\* mode with the flagged effects disabled.
C4_Interruption ==
    [][ (MotionTrigger /\ (timeouts > 0 \/ intervals > 0)) =>
            /\ timeouts' = 0 /\ _pInterval2' = "null"
            /\ intervals' = 0 /\ ~_pInterval'
            /\ fastMode'
            /\ FlaggedEffectsDisabled' ]_vars

\* Fast mode re-entered over an existing overlay whose timers were cancelled,
\* with the effect still disabled and the culling of the cancelled recovery kept
C4_Witness ==
    /\ fastMode /\ _img /\ ~imgVisible /\ _pInterval2 = "null"
    /\ timeouts = 0 /\ intervals = 0 /\ timer = 600
    /\ ToBoolean(_hideSAO) /\ hostEffects.sao /\ ~saoEnabled
    /\ _culling = Bool(TRUE)

----------------------------------------------------------------------------
(* LiveSpec: the motion controller under the host's scheduling.  The scene  *)
(* delivers a tick every frame and the event loop runs every timer          *)
(* callback that is due; the snapshot succeeds.                             *)

LiveInit ==
    \E cfg \in Configs(HideValues, {Num(2)}, {Undef}) :
        Constructed(cfg, AllEffectsOn, TwoObjects)

TickDelivered == \E deltaTime \in TickDeltas : Tick(deltaTime, TRUE)

LiveNext ==
    \/ CanvasBoundary
    \/ ViewMatrix
    \/ ProjMatrix
    \/ MouseDown
    \/ MouseUp
    \/ MouseMove
    \/ TickDelivered
    \/ RecoveryTimeout
    \/ FadeStep
    \/ SendClear

LiveSpec ==
    /\ LiveInit
    /\ [][LiveNext]_vars
    /\ WF_vars(TickDelivered)
    /\ WF_vars(RecoveryTimeout)
    /\ WF_vars(FadeStep)

\* the effects whose hide flag is set are enabled and _setObjectsCulled(false)
\* was the last culling call
QualityRestored == FlaggedEffectsEnabled /\ _culling = Bool(FALSE)

\* C1: once in Fast mode, a run in which motion triggers stop arriving while
\* ticks and timer callbacks are delivered reaches a state with the flagged
\* effects enabled again and detail culling released.
C1_IdleRecovery ==
    (<>[][~MotionTrigger]_vars) => (fastMode ~> QualityRestored)

----------------------------------------------------------------------------
(* CullSpec: the detail-cull selector driven by the motion controller, with *)
(* the configuration and the scene changing; every hide flag is set, the    *)
(* idle timeout passes in one tick and the snapshot succeeds                *)

AllHidden == Configs({Bool(TRUE)}, {Undef}, {Undef})
CullThresholds == {Undef, Num(1), Num(2)}
CullSizes == {Undef, Num(1)}
CullTypeLists == {Undef, List(<<"IfcSpace">>)}
\* a triangle-heavy large object, a light small one, and a typed one
CullEntities(model) ==
    {Entity(model, 2, 2, NoMeta), Entity(model, 1, 1, NoMeta), Entity(model, 1, 2, "IfcSpace")}

CullInit ==
    \E cfg \in AllHidden, scene \in {<<>>} \cup {<<entity>> : entity \in CullEntities(1)} :
        Constructed(cfg, AllEffectsOn, scene)

IdleTimeoutTick == Tick(timeoutDuration, TRUE)

CullNext ==
    \/ ViewMatrix
    \/ IdleTimeoutTick
    \/ RecoveryTimeout
    \/ \E value \in CullSizes : SetHideSmallerThan(value)
    \/ \E value \in CullThresholds : SetHideMoreTrianglesThan(value)
    \/ \E list \in CullTypeLists : SetHideTypes(list)
    \/ \E list \in CullTypeLists : SetDontHideTypes(list)
    \/ \E model \in ModelIds : \E entity \in CullEntities(model) : ModelLoaded(entity)
    \/ \E model \in ModelIds : ModelDestroyed(model)
    \/ \E objectIdx \in ObjIdx, culled \in BOOLEAN : OtherSystemViewCulls(objectIdx, culled)
    \/ Destroy

CullSpec == CullInit /\ [][CullNext]_vars

----------------------------------------------------------------------------
(* Properties of the detail-cull selector *)

\* the fixed-precedence predicate of the selector's contract
CullPredicate(entity) ==
    LET typed == entity.type # NoMeta
        neverHide == typed /\ entity.type \in _dontHideTypesMap
        alwaysHide == typed /\ entity.type \in _hideTypesMap
        byTriangles == entity.numTriangles >= _hideMoreTrianglesThan
        bySize == entity.size <= _hideSmallerThan
    IN  CASE neverHide -> FALSE
          [] ~neverHide /\ alwaysHide -> TRUE
          [] ~neverHide /\ ~alwaysHide /\ _hideMoreTrianglesThan # 0 /\ _hideSmallerThan # 0 ->
                byTriangles /\ bySize
          [] ~neverHide /\ ~alwaysHide /\ _hideMoreTrianglesThan # 0 /\ _hideSmallerThan = 0 ->
                byTriangles
          [] ~neverHide /\ ~alwaysHide /\ _hideMoreTrianglesThan = 0 /\ _hideSmallerThan # 0 ->
                bySize
          [] OTHER -> FALSE

\* the indices of the current objects the predicate selects
PredicateCullSet == {objectIdx \in 0..(numObjects - 1) : CullPredicate(ObjectAt(objectIdx))}

\* the plugin is in Quality after the construction or after a completed recovery
QualityAtRest == ~fastMode /\ timeouts = 0 /\ (_culling = Undef \/ recoveryRuns > 0)

\* C5: in Quality with no recovery pending no object is detail-culled and no
\* effect the host had enabled is left disabled.
C5_QualityInvariant ==
    QualityAtRest =>
        /\ \A objectIdx \in ObjIdx : ~detailCulled[objectIdx]
        /\ hostEffects.pbr => pbr
        /\ hostEffects.sao => saoEnabled
        /\ hostEffects.edges => edges

\* C5, the half about culling alone
C5_NoCullingAtRest ==
    QualityAtRest => \A objectIdx \in ObjIdx : ~detailCulled[objectIdx]

\* C6: _setObjectsCulled(false) run after _setObjectsCulled(true) leaves
\* detailCulled = false on every object the first call set, whatever was
\* reconfigured in between.
C6_RoundTrip ==
    [][ (RecoveryTimeout /\ _culling = Bool(TRUE)) =>
            \A objectIdx \in VisitedBySetObjectsCulled(_cullSet) : ~detailCulled'[objectIdx] ]_vars

\* C7: _setObjectsCulled(true) sets detailCulled for exactly the indices the
\* predicate selects under the current configuration and writes no other flag.
C7_ExactApply ==
    [][ (MotionTrigger /\ ~fastMode) =>
            \A objectIdx \in ObjIdx :
                detailCulled'[objectIdx] =
                    (IF objectIdx \in PredicateCullSet THEN TRUE ELSE detailCulled[objectIdx]) ]_vars

\* C9: no operation of the plugin writes viewCulled: the flag changes only
\* when another culling system writes it.
C9_ViewCulledFrame ==
    [][ viewCulled' # viewCulled =>
            \E objectIdx \in ObjIdx, culled \in BOOLEAN : OtherSystemViewCulls(objectIdx, culled) ]_vars

\* C10: after destroy() no object is detail-culled.
C10_TeardownRestores ==
    destroyed => \A objectIdx \in ObjIdx : ~detailCulled[objectIdx]

----------------------------------------------------------------------------
(* BuildSpec: _buildCullObjects over every scene of up to BuildMaxObjects   *)
(* objects and every configuration of its thresholds and type lists.  The  *)
(* rebuild runs inside _setObjectsCulled, on the entry into Fast mode and   *)
(* in the recovery callback; a changed never-hide list makes it run again   *)
(* over the array of the earlier cull set.                                  *)

BuildMaxObjects == 2
BuildThresholds == {Undef, Num(1), Num(2)}
BuildTypeLists == {Undef, List(<<"IfcSpace">>)}
BuildEntities(model) ==
    {Entity(model, numTriangles, size, type) :
        numTriangles \in {1, 2}, size \in {1, 2}, type \in {"IfcSpace", NoMeta}}

RECURSIVE BuildScenes(_)
\* the scenes of n objects, the k-th of model k
BuildScenes(n) ==
    IF n = 0 THEN {<<>>}
    ELSE {Append(scene, entity) : scene \in BuildScenes(n - 1), entity \in BuildEntities(n)}

BuildInit ==
    \E cfg \in Configs({Bool(TRUE)}, BuildThresholds, BuildTypeLists), n \in 0..BuildMaxObjects :
        \E scene \in BuildScenes(n) : Constructed(cfg, AllEffectsOn, scene)

BuildNext ==
    \/ ViewMatrix
    \/ IdleTimeoutTick
    \/ RecoveryTimeout
    \/ \E list \in BuildTypeLists : SetDontHideTypes(list)

BuildSpec == BuildInit /\ [][BuildNext]_vars

----------------------------------------------------------------------------
(* FadeSpec: the crossfade overlay, with _startFade also called on the      *)
(* plugin while the fade loop of an earlier call is still running           *)

\* this._startFade() called from outside the tick handler
StartFade(snapshotOk) ==
    /\ ~destroyed
    /\ _startFade(snapshotOk)
    /\ UNCHANGED <<_pInterval2, timeouts, closureVars, hideVars, cfgVars, cullVars, effectVars,
                   sceneVars, _frustumDirty, _kdTreeDirty, kdVars, destroyed, recoveryRuns, suppressed>>

FadeInit ==
    \E cfg \in AllHidden : Constructed(cfg, AllEffectsOn, TwoObjects)

FadeNext ==
    \/ ViewMatrix
    \/ \E deltaTime \in TickDeltas, snapshotOk \in BOOLEAN : Tick(deltaTime, snapshotOk)
    \/ RecoveryTimeout
    \/ FadeStep
    \/ \E snapshotOk \in BOOLEAN : StartFade(snapshotOk)
    \/ SendClear

FadeSpec == FadeInit /\ [][FadeNext]_vars

\* C11: at most one fade interval is scheduled at any time, and it is the one
\* this._pInterval holds: a _startFade over a running loop leaves one loop only.
C11_FadeExclusive == intervals <= 1 /\ (_pInterval <=> intervals = 1)

\* a fade loop that replaced a running one has stepped, alone in the event loop
C11_Witness == fadeReplaced /\ intervals = 1 /\ opacity < 1000 /\ imgVisible

----------------------------------------------------------------------------
(* Capture failure *)

\* a tick during which viewer.getSnapshot raises if _startFade is reached
CaptureFails == \E deltaTime \in TickDeltas : Tick(deltaTime, FALSE)

\* C12: the tick at which the countdown expires leaves Fast mode and schedules
\* the recovery also when the capture of the frame fails.
C12_FailSoft ==
    [][ (CaptureFails /\ fastMode /\ timer' <= 0) => (~fastMode' /\ timeouts' > 0) ]_vars

----------------------------------------------------------------------------
(* NormSpec: the setters of the selector given undefined, null and negative *)
(* values, over a scene of an untyped and a typed object                    *)

NormThresholds == {Undef, Null, Num(-1), Num(1)}
NormTypeLists == {Undef, Null, List(<<"IfcSpace">>)}
NormObjects == <<Entity(1, 1, 1, NoMeta), Entity(2, 2, 2, "IfcSpace")>>

NormInit ==
    \E cfg \in Configs({Bool(TRUE)}, NormThresholds, NormTypeLists) :
        Constructed(cfg, AllEffectsOn, NormObjects)

NormNext ==
    \/ ViewMatrix
    \/ IdleTimeoutTick
    \/ RecoveryTimeout
    \/ \E value \in NormThresholds : SetHideSmallerThan(value)
    \/ \E value \in NormThresholds : SetHideMoreTrianglesThan(value)
    \/ \E list \in NormTypeLists : SetHideTypes(list)
    \/ \E list \in NormTypeLists : SetDontHideTypes(list)

NormSpec == NormInit /\ [][NormNext]_vars

\* the selector's predicate with a negative threshold read as 0, disabled
NormalizedCullPredicate(entity) ==
    LET triangleThreshold == Max(_hideMoreTrianglesThan, 0)
        sizeThreshold == Max(_hideSmallerThan, 0)
        typed == entity.type # NoMeta
    IN  IF typed /\ entity.type \in _dontHideTypesMap THEN FALSE
        ELSE IF typed /\ entity.type \in _hideTypesMap THEN TRUE
        ELSE /\ triangleThreshold # 0 \/ sizeThreshold # 0
             /\ triangleThreshold # 0 => entity.numTriangles >= triangleThreshold
             /\ sizeThreshold # 0 => entity.size <= sizeThreshold

NormalizedCullSet ==
    {objectIdx \in 0..(numObjects - 1) : NormalizedCullPredicate(ObjectAt(objectIdx))}

\* C13: the cull set a rebuild produces is the one of the configuration with
\* every negative threshold replaced by 0; undefined and null thresholds are
\* stored as 0 and undefined and null type lists as empty sets.
C13_Normalization ==
    [][ /\ \A value \in {Undef, Null} :
              /\ SetHideSmallerThan(value) => _hideSmallerThan' = 0
              /\ SetHideMoreTrianglesThan(value) => _hideMoreTrianglesThan' = 0
              /\ SetHideTypes(value) => _hideTypesMap' = {}
              /\ SetDontHideTypes(value) => _dontHideTypesMap' = {}
        /\ (_cullSetDirty /\ ~_cullSetDirty') => CullSetObjects' = NormalizedCullSet' ]_vars

----------------------------------------------------------------------------
(* KdSpec: the spatial index over scenes of boxes on a grid fine enough     *)
(* that every split down to the maximum depth halves exactly                *)

KdUnit == 2 ^ _maxTreeDepth
\* a point in the scene's corner, a point in the opposite corner along x, and
\* a box over the lower half of x that is longest along y
KdBoxes ==
    {<<0, 0, 0, 0, 0, 0>>, <<2 * KdUnit, 0, 0, 2 * KdUnit, 0, 0>>,
     <<0, 0, 0, KdUnit, 2 * KdUnit, 0>>}
\* views that hold the low quarter of x, the high part of x, and everything
Frusta ==
    {<<-KdUnit, -KdUnit, -KdUnit, KdUnit \div 2, 3 * KdUnit, KdUnit>>,
     <<KdUnit + 1, -KdUnit, -KdUnit, 3 * KdUnit, 3 * KdUnit, KdUnit>>,
     <<-KdUnit, -KdUnit, -KdUnit, 3 * KdUnit, 3 * KdUnit, KdUnit>>}

\* an entity with its boundary, without metadata
BoxedEntity(model, aabb) ==
    [model |-> model, numTriangles |-> 1, size |-> 1, type |-> NoMeta, aabb |-> aabb]

KdInit ==
    \E cfg \in AllHidden : Constructed(cfg, AllEffectsOn, <<>>)

KdNext ==
    \/ ViewMatrix
    \/ \E model \in ModelIds, aabb \in KdBoxes : ModelLoaded(BoxedEntity(model, aabb))
    \/ \E model \in ModelIds : ModelDestroyed(model)
    \/ \E frustum \in Frusta : GetObjectsInFrustum(frustum)
    \/ VisitKDNode

KdSpec == KdInit /\ [][KdNext]_vars

----------------------------------------------------------------------------
(* Properties of the spatial index *)

\* the tree was built from the objects the scene holds now
TreeCurrent == DOMAIN _kdRoot # {} /\ ~_kdTreeDirty

\* the nodes of the subtree under the node at path, that node included
Subtree(tree, path) ==
    {p \in DOMAIN tree : Len(p) >= Len(path) /\ SubSeq(p, 1, Len(path)) = path}

\* every node's box contains the box of every object stored at or below it
Contains(tree) ==
    \A path \in DOMAIN tree : \A p \in Subtree(tree, path) :
        \A objectIdx \in Range(tree[p].objects) :
            containsAABB3(tree[path].aabb, ObjectAt(objectIdx).aabb)

\* every node of tree is a node of grown, with a box at least as large
Grown(tree, grown) ==
    \A path \in DOMAIN tree :
        path \in DOMAIN grown /\ containsAABB3(grown[path].aabb, tree[path].aabb)

\* the places an object index is stored at: a node and a position in its list
Registrations(tree, objectIdx) ==
    {reg \in UNION {{<<path, k>> : k \in 1..Len(tree[path].objects)} : path \in DOMAIN tree} :
        tree[reg[1]].objects[reg[2]] = objectIdx}

\* C14: no _insertEntityIntoKDTree call has a depth above the maximum, no node
\* lies deeper than the maximum, and every object of a built tree is stored in
\* the overflow list of some node.
C14_DepthBound ==
    /\ insertDepth <= _maxTreeDepth
    /\ \A path \in DOMAIN _kdRoot : Len(path) + 1 <= _maxTreeDepth
    /\ TreeCurrent =>
           \A objectIdx \in 0..(numObjects - 1) : Registrations(_kdRoot, objectIdx) # {}

\* an insertion went down to the maximum depth and stored its object there
C14_Witness ==
    /\ TreeCurrent /\ insertDepth = _maxTreeDepth
    /\ \E path \in DOMAIN _kdRoot :
           Len(path) + 1 = _maxTreeDepth /\ _kdRoot[path].objects # <<>>

\* C15: after every insertion of a build each node's box contains the boxes of
\* the objects stored at and below it, and no insertion and no traversal makes
\* the box of a node smaller.
C15_Containment ==
    TreeCurrent =>
        /\ \A k \in 1..numObjects :
               /\ Contains(KDTreeOf(k).tree)
               /\ Grown(KDTreeOf(k - 1).tree, KDTreeOf(k).tree)
        /\ Grown(KDTreeOf(numObjects).tree, _kdRoot)
        /\ Contains(_kdRoot)

\* a tree of two objects of which the second was stored below a child the
\* first insertion had created
C15_Witness ==
    /\ TreeCurrent /\ numObjects = 2
    /\ \E path \in DOMAIN KDTreeOf(1).tree :
           /\ path # <<>>
           /\ \E p \in Subtree(_kdRoot, path) : 1 \in Range(_kdRoot[p].objects)

\* C16: in a built tree every index of a current object is stored exactly once,
\* and nothing else is stored.
C16_UniqueRegistration ==
    TreeCurrent =>
        /\ \A objectIdx \in 0..(numObjects - 1) :
               Cardinality(Registrations(_kdRoot, objectIdx)) = 1
        /\ \A path \in DOMAIN _kdRoot : Range(_kdRoot[path].objects) \subseteq 0..(numObjects - 1)
        /\ DOMAIN _kdRoot = DOMAIN KDTreeOf(numObjects).tree

\* a tree of two objects, not yet traversed, built after an earlier tree had
\* been traversed and a model had been removed and another added
C16_Witness ==
    /\ TreeCurrent /\ numObjects = 2 /\ objects[1].model = 2
    /\ _kdRoot[<<>>].intersects = "undefined"
    /\ determined[0] # "undefined"

\* C17: a traversal of the built tree determines for every object the
\* classification of the object's own box against the frustum.
C17_TraversalAgrees ==
    [][ (VisitKDNode /\ TreeCurrent /\ _frustum \in Frusta) =>
            \A objectIdx \in 0..(numObjects - 1) :
                determined'[objectIdx] =
                    frustumIntersectsAABB3(_frustum, ObjectAt(objectIdx).aabb) ]_vars

\* C17, the part about culling: no object is left determined Outside whose box
\* is not outside the frustum.
C17_NoFalseOutside ==
    [][ (VisitKDNode /\ TreeCurrent /\ _frustum \in Frusta) =>
            \A objectIdx \in 0..(numObjects - 1) :
                determined'[objectIdx] = OUTSIDE =>
                    frustumIntersectsAABB3(_frustum, ObjectAt(objectIdx).aabb) = OUTSIDE ]_vars

----------------------------------------------------------------------------
(* Properties of the dirty flag, the defaults and the countdown *)

\* C18: while the plugin lives, the cull set is marked dirty or is the set of
\* the objects the predicate selects under the current configuration.
C18_NeverStale ==
    ~destroyed =>
        \/ _cullSetDirty
        \/ /\ CullSetObjects = PredicateCullSet
           /\ _cullSetLen = Cardinality(PredicateCullSet)

\* C19: a plugin constructed without hidePBR, hideSAO and hideEdges has PBR,
\* SAO and the edges disabled while it is in Fast mode.
C19_DefaultsHide ==
    (fastMode /\ _hidePBR = Undef /\ _hideSAO = Undef /\ _hideEdges = Undef) =>
        (~pbr /\ ~saoEnabled /\ ~edges)

\* C20: a tick in Fast mode takes its deltaTime off the countdown and leaves
\* Fast mode only when the countdown is used up; a tick in Quality changes
\* nothing; every motion trigger sets the countdown to 600 ms; a recovery is
\* scheduled only by a tick in Fast mode that ends with the countdown at or
\* below zero, when the ticks since the most recent trigger add up to 600 ms
\* or more.
C20_ContinuousIdle ==
    [][ /\ \A deltaTime \in TickDeltas, snapshotOk \in BOOLEAN :
              Tick(deltaTime, snapshotOk) =>
                  IF fastMode
                  THEN /\ timer' = timer - deltaTime
                       /\ timer' > 0 => (fastMode' /\ timeouts' = timeouts)
                  ELSE UNCHANGED vars
        /\ MotionTrigger => timer' = timeoutDuration
        /\ timeouts' > timeouts =>
               (fastMode /\ ~fastMode' /\ timer' <= 0 /\ idleTime' >= timeoutDuration) ]_vars

\* a recovery scheduled by the second of two ticks of 300 ms
C20_Witness ==
    /\ ~fastMode /\ timeouts = 1 /\ _pInterval2 = "live" /\ recoveryRuns = 0
    /\ timer = 0 /\ idleTime = timeoutDuration

----------------------------------------------------------------------------
(* Properties of the recovery *)

\* C21: the delayed recovery callback enables every effect that startHiding
\* disabled on the preceding entry into Fast mode and changes no other
\* effect, whatever the hide flags were set to in between.
C21_RecoveryMatchesEntry ==
    [][ RecoveryTimeout =>
            /\ pbr' = (suppressed.pbr \/ pbr)
            /\ saoEnabled' = (suppressed.sao \/ saoEnabled)
            /\ edges' = (suppressed.edges \/ edges) ]_vars

\* an effect goes from disabled to enabled, or detail culling is released
EffectEnabled == (~pbr /\ pbr') \/ (~saoEnabled /\ saoEnabled') \/ (~edges /\ edges')
CullingReleased ==
    \/ \E objectIdx \in ObjIdx : detailCulled[objectIdx] /\ ~detailCulled'[objectIdx]
    \/ _culling # Bool(FALSE) /\ _culling' = Bool(FALSE)

\* C22: the tick that detects the expired countdown shows the overlay at full
\* opacity with its fade loop started, schedules the recovery and itself
\* enables no effect and releases no culling; outside destroy(), an effect is
\* enabled or culling released only by the delayed callback, which runs with
\* the overlay created and the plugin out of Fast mode.
C22_RecoveryOrdering ==
    [][ /\ timeouts' > timeouts =>
               /\ imgVisible' /\ imgOpacity' = 1000 /\ _pInterval' /\ intervals' = 1
               /\ UNCHANGED <<effectVars, detailCulled, _culling>>
        /\ (\E deltaTime \in TickDeltas, snapshotOk \in BOOLEAN : Tick(deltaTime, snapshotOk)) =>
               UNCHANGED <<effectVars, detailCulled, _culling>>
        /\ ((EffectEnabled \/ CullingReleased) /\ ~destroyed') =>
               /\ timeouts' = timeouts - 1
               /\ recoveryRuns' = recoveryRuns + 1
               /\ _img /\ ~fastMode ]_vars

\* the recovery callback has run while the overlay of its fade is still shown
\* part-faded: an effect the entry disabled is enabled again, culling released
C22_Witness ==
    /\ ~fastMode /\ recoveryRuns = 1 /\ timeouts = 0
    /\ imgVisible /\ intervals = 1 /\ opacity < 1000
    /\ hostEffects.pbr /\ ToBoolean(_hidePBR) /\ pbr
    /\ _culling = Bool(FALSE)

----------------------------------------------------------------------------
(* Properties of the crossfade *)

\* C23: every step of a fade lowers the overlay's opacity by one tenth (one
\* thousandth less where the doubles round) while the result is above zero;
\* the step that would bring it to zero or below hides the overlay and clears
\* the interval, so no further step runs; the opacity rises only when a tick
\* starts a new fade; and a shown overlay is eventually hidden.
C23_FadeTerminates ==
    /\ [][ /\ FadeStep =>
                  (IF Decrement(opacity) > 0
                   THEN /\ imgOpacity' = Decrement(imgOpacity)
                        /\ imgOpacity - imgOpacity' \in {99, 100}
                        /\ imgVisible' /\ intervals' = 1
                   ELSE /\ imgOpacity' = 0 /\ ~imgVisible'
                        /\ intervals' = 0 /\ ~_pInterval')
           /\ imgOpacity' > imgOpacity => (fastMode /\ ~fastMode' /\ imgOpacity' = 1000) ]_vars
    /\ (imgVisible ~> ~imgVisible)

\* a fade that was not cancelled has made its ten steps above zero: the next
\* step ends it
C23_Witness ==
    imgVisible /\ imgOpacity = 1 /\ opacity = 1 /\ intervals = 1 /\ _pInterval

----------------------------------------------------------------------------
(* Properties of the commands *)

\* C24: send("clear") leaves the overlay hidden and no fade loop scheduled,
\* changes nothing when no fade is in progress, and leaves the motion state,
\* the effects, the detailCulled flags and a pending recovery timeout as they
\* were.
C24_ClearFrame ==
    [][ SendClear =>
            /\ ~imgVisible' /\ intervals' = 0 /\ ~_pInterval'
            /\ (intervals = 0 /\ ~imgVisible) => UNCHANGED <<_img, imgVisible, intervals, _pInterval>>
            /\ UNCHANGED <<closureVars, effectVars, detailCulled>>
            /\ timeouts' = timeouts ]_vars

----------------------------------------------------------------------------
(* Properties of the timers *)

\* C25: in Fast mode no fade interval is scheduled and no recovery timeout is
\* pending; a recovery timeout is pending only outside Fast mode.
C25_FastExcludesTimers ==
    /\ fastMode => (intervals = 0 /\ ~_pInterval /\ timeouts = 0 /\ _pInterval2 # "live")
    /\ timeouts > 0 => ~fastMode

\* Fast mode entered again after a recovery sequence had created the overlay,
\* with the countdown part used and nothing in the event loop
C25_Witness ==
    /\ fastMode /\ _img /\ timer = 300
    /\ intervals = 0 /\ timeouts = 0 /\ ~imgVisible

\* C26: the overlay is shown only while its fade interval is scheduled, and
\* once the plugin is destroyed the overlay is removed, no fade interval and
\* no recovery timeout is left in the event loop and neither callback runs.
C26_NoStuckOverlay ==
    /\ imgVisible => (_img /\ _pInterval /\ intervals = 1)
    /\ destroyed =>
           /\ ~_img /\ ~imgVisible
           /\ intervals = 0 /\ ~_pInterval
           /\ timeouts = 0 /\ _pInterval2 # "live"
           /\ ~ENABLED FadeStep /\ ~ENABLED RecoveryTimeout

\* destroy() called after a recovery sequence had begun and before its callback
\* ran: the effects are still as Fast mode set them and nothing is left to run
C26_Witness ==
    /\ destroyed /\ ~fastMode /\ timer <= 0 /\ recoveryRuns = 0
    /\ _culling = Bool(TRUE) /\ _pInterval2 = "null" /\ opacity = 0
    /\ hostEffects.edges /\ ToBoolean(_hideEdges) /\ ~edges

====
